---- MODULE Spec2Model ----
(***************************************************************************)
(* Model of src/main.py: the /upload/ handler upload_excel with its        *)
(* helpers validate_table_name, create_table_if_not_exists,                *)
(* get_database_fields and call_llm, and the MySQL table it appends to.    *)
(*                                                                         *)
(* Python strings are sequences of one-character strings, so that strip,   *)
(* lower and the table-name pattern are computed and not assumed.          *)
(***************************************************************************)
EXTENDS Naturals, Sequences, FiniteSets

VARIABLES pandas3, db, stmts, req, prev

vars == <<pandas3, db, stmts, req, prev>>

(***************************************************************************)
(* Strings                                                                 *)
(***************************************************************************)
UpperLetters == <<"A","B","C","D","E","F","G","H","I","J","K","L","M",
                  "N","O","P","Q","R","S","T","U","V","W","X","Y","Z">>

LowerLetters == <<"a","b","c","d","e","f","g","h","i","j","k","l","m",
                  "n","o","p","q","r","s","t","u","v","w","x","y","z">>

Digits == {"0","1","2","3","4","5","6","7","8","9"}

Range(s) == {s[i] : i \in 1..Len(s)}

IsSpace(c) == c \in {" ", "\t", "\n", "\r"}

\* str.lower() on one character
LowerChar(c) ==
    IF \E i \in 1..26 : UpperLetters[i] = c
    THEN LowerLetters[CHOOSE i \in 1..26 : UpperLetters[i] = c]
    ELSE c

\* str.lower()
Lower(s) == [i \in 1..Len(s) |-> LowerChar(s[i])]

RECURSIVE LStrip(_)
LStrip(s) ==
    IF Len(s) > 0 /\ IsSpace(s[1]) THEN LStrip(Tail(s)) ELSE s

RECURSIVE RStrip(_)
RStrip(s) ==
    IF Len(s) > 0 /\ IsSpace(s[Len(s)])
    THEN RStrip(SubSeq(s, 1, Len(s) - 1))
    ELSE s

\* str.strip()
Strip(s) == RStrip(LStrip(s))

\* str(col).strip().lower(), line 160 and line 182
Normalize(s) == Lower(Strip(s))

(***************************************************************************)
(* validate_table_name                                                     *)
(***************************************************************************)
IsIdentStart(c) == c \in Range(UpperLetters) \cup Range(LowerLetters) \cup {"_"}

IsWordChar(c) == IsIdentStart(c) \/ c \in Digits

\* [A-Za-z_][A-Za-z0-9_]* over the whole of s
FullIdent(s) ==
    /\ Len(s) >= 1
    /\ IsIdentStart(s[1])
    /\ \A i \in 2..Len(s) : IsWordChar(s[i])

\* re.match(r"^[A-Za-z_][A-Za-z0-9_]*$", s): without re.MULTILINE, $ matches
\* at the end of the string and also just before a newline that ends it.
PatternMatches(s) ==
    \/ FullIdent(s)
    \/ /\ Len(s) >= 1
       /\ s[Len(s)] = "\n"
       /\ FullIdent(SubSeq(s, 1, Len(s) - 1))

\* TRUE when validate_table_name returns, FALSE when it raises 400
validate_table_name(table_name) == PatternMatches(table_name)

\* The table a raw statement built from the name addresses: the SQL parser
\* reads a trailing newline as white space.
SqlTable(table_name) == RStrip(table_name)

(***************************************************************************)
(* Column names                                                            *)
(***************************************************************************)
CLIENT_ID     == <<"c","l","i","e","n","t","_","i","d">>
FULL_NAME     == <<"f","u","l","l","_","n","a","m","e">>
PHONE_NO      == <<"p","h","o","n","e","_","n","o">>
CLIENT_AMOUNT == <<"c","l","i","e","n","t","_","a","m","o","u","n","t">>
TOTAL_LAND    == <<"t","o","t","a","l","_","l","a","n","d">>
YEAR          == <<"y","e","a","r">>

LOANER_ID     == <<"l","o","a","n","e","r","_","i","d">>
NAME          == <<"n","a","m","e">>
LOAN_AMOUNT   == <<"l","o","a","n","_","a","m","o","u","n","t">>

IS_VALID      == <<"i","s","_","v","a","l","i","d">>

\* The dict literal of lines 172-179, in its order
FixedItems ==
    << <<LOANER_ID, CLIENT_ID>>, <<NAME, FULL_NAME>>, <<PHONE_NO, PHONE_NO>>,
       <<LOAN_AMOUNT, CLIENT_AMOUNT>>, <<TOTAL_LAND, TOTAL_LAND>>, <<YEAR, YEAR>> >>

FIXED_COLUMN_MAPPING ==
    [k \in {FixedItems[i][1] : i \in 1..Len(FixedItems)} |->
        FixedItems[CHOOSE i \in 1..Len(FixedItems) : FixedItems[i][1] = k][2]]

\* list(FIXED_COLUMN_MAPPING.values()), line 192
allowed_columns == {FixedItems[i][2] : i \in 1..Len(FixedItems)}

(***************************************************************************)
(* call_llm                                                                *)
(***************************************************************************)
\* What the remote workflow answers: the HTTP status, the JSON body's
\* "status" and "error", and result.result as its (key, value) items in
\* order, the keys distinct.
IsResponse(resp) ==
    /\ DOMAIN resp = {"status_code", "status", "error", "result"}
    /\ \A i, j \in 1..Len(resp.result) :
          resp.result[i][1] = resp.result[j][1] => i = j

NotIsValidKey(item) == item[1] # IS_VALID

\* [code |-> 200, mapping |-> mapping_data] when call_llm returns,
\* [code |-> the HTTPException's status_code] when it raises
call_llm(resp) ==
    IF resp.status_code = 403
    THEN [code |-> 403, detail |-> "Token expired. Update DVARA_TOKEN in .env",
          mapping |-> <<>>]
    ELSE IF resp.status_code >= 400
    THEN [code |-> 500, detail |-> "LLM API failed", mapping |-> <<>>]
    ELSE IF resp.status # "completed"
    THEN [code |-> 500, detail |-> "Workflow failed", mapping |-> <<>>]
    ELSE IF resp.error
    THEN [code |-> 500, detail |-> "Workflow returned an error", mapping |-> <<>>]
    ELSE LET mapping_data == SelectSeq(resp.result, NotIsValidKey)
         IN  IF mapping_data = <<>>
             THEN [code |-> 500, detail |-> "Empty mapping returned from LLM",
                   mapping |-> <<>>]
             ELSE [code |-> 200, detail |-> "", mapping |-> mapping_data]

(***************************************************************************)
(* Mapping resolution, lines 171-193                                       *)
(***************************************************************************)
SetMax(S) == CHOOSE x \in S : \A y \in S : y <= x

\* {str(k).strip().lower(): v for k, v in mapping.items()}: a later item
\* replaces an earlier one with the same normalized key
llm_mapping_lower(mapping) ==
    [k \in {Normalize(mapping[i][1]) : i \in 1..Len(mapping)} |->
        mapping[SetMax({i \in 1..Len(mapping) : Normalize(mapping[i][1]) = k})][2]]

\* The branch taken for one column that is a key of either mapping
MappedFieldLlmFirst(excel_col, llm_lower) ==
    IF excel_col \in DOMAIN llm_lower
    THEN llm_lower[excel_col]
    ELSE FIXED_COLUMN_MAPPING[excel_col]

MappedField(excel_col, llm_lower) ==
    IF excel_col \in DOMAIN FIXED_COLUMN_MAPPING
    THEN FIXED_COLUMN_MAPPING[excel_col]
    ELSE llm_lower[excel_col]

\* final_mapping after the loop of lines 184-188
FinalMapping(columns, mapping) ==
    LET llm_lower == llm_mapping_lower(mapping)
        mapped == {c \in Range(columns) :
                      c \in DOMAIN FIXED_COLUMN_MAPPING \/ c \in DOMAIN llm_lower}
    IN  [c \in mapped |-> MappedField(c, llm_lower)]

\* df.rename(columns=final_mapping)
Renamed(columns, final_mapping) ==
    [i \in 1..Len(columns) |->
        IF columns[i] \in DOMAIN final_mapping
        THEN final_mapping[columns[i]]
        ELSE columns[i]]

Positions(columns, name) ==
    SelectSeq([i \in 1..Len(columns) |-> i], LAMBDA i : columns[i] = name)

\* df[[col for col in df.columns if col in allowed_columns]] as the positions
\* it selects: each listed label selects every column bearing it
RECURSIVE SelectFrom(_, _)
SelectFrom(columns, i) ==
    IF i > Len(columns) THEN <<>>
    ELSE (IF columns[i] \in allowed_columns
          THEN Positions(columns, columns[i])
          ELSE <<>>) \o SelectFrom(columns, i + 1)

SelectedPositions(columns) == SelectFrom(columns, 1)

(***************************************************************************)
(* Row reconciliation, lines 202-229                                       *)
(***************************************************************************)
\* A missing cell of the parsed table
NaN == <<"NaN">>

\* Series.astype(str) on one cell: before pandas 3 a missing value becomes
\* the string "nan"; from pandas 3 on, str is the string dtype and it stays
\* missing.
AsTypeStr(cell, p3) ==
    IF cell = NaN THEN (IF p3 THEN NaN ELSE <<"n","a","n">>) ELSE cell

\* Series.str.strip() on one cell
StrStripNothing(cell) == cell

StrStrip(cell) == IF cell = NaN THEN NaN ELSE Strip(cell)

\* line 203
CleanId(cell, p3) == StrStrip(AsTypeStr(cell, p3))

\* line 204: df["client_id"].notna() & (df["client_id"] != "")
IsValidId(id) == id # NaN /\ id # <<>>

RECURSIVE Pick(_, _, _)
Pick(rows, keep, i) ==
    IF i > Len(rows) THEN <<>>
    ELSE (IF i \in keep THEN <<rows[i]>> ELSE <<>>) \o Pick(rows, keep, i + 1)

\* The rows of a frame at the positions keep, in order
RowsAt(rows, keep) == Pick(rows, keep, 1)

\* drop_duplicates(subset=["client_id"], keep=...), line 205; k is the
\* position of the client_id column
DropDuplicatesKeepFirst(rows, k) ==
    RowsAt(rows, {i \in 1..Len(rows) :
                     \A j \in 1..(i - 1) : rows[j].cells[k] # rows[i].cells[k]})

DropDuplicates(rows, k) ==
    RowsAt(rows, {i \in 1..Len(rows) :
                     \A j \in (i + 1)..Len(rows) : rows[j].cells[k] # rows[i].cells[k]})

\* lines 203-205 on the frame's rows
Cleaned(rows, k, p3) ==
    LET stripped == [i \in 1..Len(rows) |->
                        [rows[i] EXCEPT !.cells[k] = CleanId(rows[i].cells[k], p3)]]
        valid == RowsAt(stripped, {i \in 1..Len(stripped) :
                                      IsValidId(stripped[i].cells[k])})
    IN  DropDuplicates(valid, k)

\* df["client_id"].tolist(), line 212
IdList(rows, k) == [i \in 1..Len(rows) |-> rows[i].cells[k]]

\* SELECT client_id FROM table WHERE client_id IN (incoming_ids), line 220
ExistingIdsNone(table, incoming_ids) == {}

ExistingIds(table, incoming_ids) ==
    {table[i][CLIENT_ID] : i \in 1..Len(table)} \cap Range(incoming_ids)

\* df[~df["client_id"].isin(existing_ids)], line 224
NotExistingAll(rows, k, existing_ids) == rows

NotExisting(rows, k, existing_ids) ==
    RowsAt(rows, {i \in 1..Len(rows) : rows[i].cells[k] \notin existing_ids})

\* One row as to_sql sends it: column name to value, the last column of a
\* name giving the value
SqlRow(columns, cells) ==
    [c \in Range(columns) |->
        cells[SetMax({i \in 1..Len(columns) : columns[i] = c})]]

\* The except clauses of lines 244-251, tried in order
StatusOfSwapped(exc) ==
    IF exc = "SQLAlchemyError" \/ exc = "IntegrityError" THEN 500
    ELSE IF exc = "IntegrityError" THEN 409
    ELSE 500

StatusOf(exc) ==
    IF exc = "IntegrityError" THEN 409
    ELSE IF exc = "SQLAlchemyError" THEN 500
    ELSE 500

(***************************************************************************)
(* The table: created by create_table_if_not_exists, lines 42-52, with     *)
(* client_id as PRIMARY KEY; a sequence of rows in the order appended.     *)
(***************************************************************************)
TableIds(table) == {table[i][CLIENT_ID] : i \in 1..Len(table)}

\* Whether appending rows with these client_ids breaks the primary key
ViolatesPrimaryKey(table, ids) ==
    \/ Range(ids) \cap TableIds(table) # {}
    \/ \E i, j \in 1..Len(ids) : i # j /\ ids[i] = ids[j]

\* db after CREATE TABLE IF NOT EXISTS name
WithTable(dbv, name) ==
    IF name \in DOMAIN dbv THEN dbv
    ELSE [t \in DOMAIN dbv \cup {name} |-> IF t \in DOMAIN dbv THEN dbv[t] ELSE <<>>]

(***************************************************************************)
(* upload_excel                                                            *)
(***************************************************************************)
Procs == {1, 2}

\* No request: every local of upload_excel unset
IdleReq ==
    [pc |-> "idle", table_name |-> <<>>, file |-> [columns |-> <<>>, rows |-> <<>>],
     insert_to_db |-> FALSE,
     resp |-> [status_code |-> 0, status |-> "", error |-> FALSE, result |-> <<>>],
     fault |-> "none", reupload |-> FALSE,
     status |-> 0, detail |-> "", exc |-> "",
     excel_columns |-> <<>>, resolved |-> FALSE, final_mapping |-> <<>>,
     columns |-> <<>>, projected |-> <<>>, reconciled |-> FALSE, cleaned |-> <<>>,
     incoming_ids |-> <<>>, df |-> <<>>,
     total_rows |-> 0, rows_inserted |-> 0, rows_skipped_existing |-> 0,
     rows_dropped_invalid |-> 0]

\* raise HTTPException(status_code, detail), re-raised by line 244-245
Raise(r, status_code, detail) ==
    [r EXCEPT !.pc = "done", !.status = status_code, !.detail = detail,
              !.exc = "HTTPException"]

\* Any other exception, turned into a response by lines 246-251
Throw(r, exc) ==
    [r EXCEPT !.pc = "done", !.status = StatusOf(exc), !.exc = exc,
              !.detail = IF exc = "IntegrityError" THEN "Database integrity error"
                         ELSE IF exc = "SQLAlchemyError" THEN "Database error"
                         ELSE exc]

\* The return of lines 231-242
Return(r) == [r EXCEPT !.pc = "done", !.status = 200, !.total_rows = Len(r.df)]

\* Lines 198-225 on a request r whose frame is projected: up to and
\* including the existing-id SELECT against the table (absent: <<>> and
\* exists = FALSE)
Reconcile(r, exists, table, p3) ==
    IF CLIENT_ID \notin Range(r.columns)
    THEN Raise(r, 400, "Mapped data must include 'client_id' to insert")
    ELSE IF Len(Positions(r.columns, CLIENT_ID)) > 1
    \* df["client_id"] is a DataFrame, which has no .str
    THEN Throw(r, "AttributeError")
    ELSE
      LET k == Positions(r.columns, CLIENT_ID)[1]
          cleaned == Cleaned(r.projected, k, p3)
          r1 == [r EXCEPT !.reconciled = TRUE, !.cleaned = cleaned, !.df = cleaned,
                          !.rows_dropped_invalid = Len(r.projected) - Len(cleaned)]
      IN  IF cleaned = <<>>
          THEN Raise(r1, 400, "No valid rows left to insert after cleaning")
          ELSE IF r.fault = "select" \/ ~exists
          THEN Throw([r1 EXCEPT !.incoming_ids = IdList(cleaned, k)], "SQLAlchemyError")
          ELSE
            LET incoming_ids == IdList(cleaned, k)
                existing_ids == ExistingIds(table, incoming_ids)
                df == NotExisting(cleaned, k, existing_ids)
                r2 == [r1 EXCEPT !.incoming_ids = incoming_ids, !.df = df,
                                 !.rows_skipped_existing = Len(cleaned) - Len(df)]
            IN  IF df = <<>> THEN Return(r2) ELSE [r2 EXCEPT !.pc = "append"]

\* Lines 153-225 of one request: the locals when the handler has returned,
\* raised, or is about to call df.to_sql. dbv is the database after
\* get_database_fields.
Handle(table_name, file, insert_to_db, resp, fault, dbv, p3) ==
    LET r0 == [IdleReq EXCEPT !.table_name = table_name, !.file = file,
                              !.insert_to_db = insert_to_db, !.resp = resp,
                              !.fault = fault]
    IN
    IF ~validate_table_name(table_name) THEN Raise(r0, 400, "Invalid table_name")
    ELSE IF file.rows = <<>> THEN Raise(r0, 400, "Uploaded file has no data rows")
    ELSE
      LET excel_columns == [i \in 1..Len(file.columns) |-> Normalize(file.columns[i])]
          llm == call_llm(resp)
          r1 == [r0 EXCEPT !.excel_columns = excel_columns]
      IN
      IF llm.code # 200 THEN Raise(r1, llm.code, llm.detail)
      ELSE
        LET final_mapping == FinalMapping(excel_columns, llm.mapping)
            renamed == Renamed(excel_columns, final_mapping)
            sel == SelectedPositions(renamed)
            columns == [n \in 1..Len(sel) |-> renamed[sel[n]]]
            projected == [i \in 1..Len(file.rows) |->
                             [idx |-> i,
                              cells |-> [n \in 1..Len(sel) |-> file.rows[i][sel[n]]]]]
            r2 == [r1 EXCEPT !.resolved = TRUE, !.final_mapping = final_mapping,
                             !.columns = columns, !.projected = projected,
                             !.df = projected]
            name == SqlTable(table_name)
        IN
        IF ~insert_to_db THEN Return(r2)
        ELSE Reconcile(r2, name \in DOMAIN dbv,
                       IF name \in DOMAIN dbv THEN dbv[name] ELSE <<>>, p3)

\* Whether the request gets as far as get_database_fields, line 166
ReachesSchema(table_name, file) ==
    validate_table_name(table_name) /\ file.rows # <<>>

NoPrev ==
    [valid |-> FALSE, status |-> 0, final_mapping |-> <<>>,
     rows_inserted |-> 0, rows_skipped_existing |-> 0]

\* What the client keeps of a response when it sends the same upload again
Summary(r) ==
    [valid |-> TRUE, status |-> r.status, final_mapping |-> r.final_mapping,
     rows_inserted |-> r.rows_inserted,
     rows_skipped_existing |-> r.rows_skipped_existing]

\* One request runs lines 153-225. create_table_if_not_exists and DESCRIBE
\* swallow their exceptions (fault "schema": the table is not created).
Start(p, table_name, file, insert_to_db, resp, fault, again) ==
    LET reaches == ReachesSchema(table_name, file)
        dbv == IF reaches /\ fault # "schema"
               THEN WithTable(db, SqlTable(table_name))
               ELSE db
        r == Handle(table_name, file, insert_to_db, resp, fault, dbv, pandas3)
    IN  /\ IsResponse(resp)
        /\ req' = [req EXCEPT ![p] = [r EXCEPT !.reupload = again]]
        /\ db' = dbv
        /\ stmts' = IF reaches THEN stmts \cup {table_name} ELSE stmts
        /\ prev' = [prev EXCEPT ![p] = IF again THEN Summary(req[p]) ELSE NoPrev]
        /\ UNCHANGED pandas3

\* A client calls POST /upload/
Begin(p, names, files, flags, resps, faults) ==
    /\ req[p].pc = "idle"
    /\ \E table_name \in names, file \in files, insert_to_db \in flags,
          resp \in resps, fault \in faults :
          Start(p, table_name, file, insert_to_db, resp, fault, FALSE)

\* A client that has its response sends the same file, table and flag again
Reupload(p, resps, faults) ==
    /\ req[p].pc = "done"
    /\ ~req[p].reupload
    /\ \E resp \in resps, fault \in faults :
          Start(p, req[p].table_name, req[p].file, req[p].insert_to_db,
                resp, fault, TRUE)

\* Lines 227-229 and the except clauses: df.to_sql(table_name, if_exists="append")
\* in one transaction. to_sql quotes the name, so a name that is not the
\* table's own (a trailing newline) names no table the server accepts.
AppendRows(p) ==
    /\ req[p].pc = "append"
    /\ LET r == req[p]
           name == SqlTable(r.table_name)
           k == Positions(r.columns, CLIENT_ID)[1]
           ids == IdList(r.df, k)
           rows == [i \in 1..Len(r.df) |-> SqlRow(r.columns, r.df[i].cells)]
       IN  /\ stmts' = stmts \cup {r.table_name}
           /\ IF r.fault = "append" \/ name # r.table_name \/ name \notin DOMAIN db
              THEN /\ req' = [req EXCEPT ![p] = Throw(r, "SQLAlchemyError")]
                   /\ db' = db
              ELSE IF ViolatesPrimaryKey(db[name], ids)
              THEN /\ req' = [req EXCEPT ![p] = Throw(r, "IntegrityError")]
                   /\ db' = db
              ELSE /\ req' = [req EXCEPT ![p] =
                                 Return([r EXCEPT !.rows_inserted = Len(r.df)])]
                   /\ db' = [db EXCEPT ![name] = @ \o rows]
    /\ UNCHANGED <<pandas3, prev>>

\* The response is sent; nothing of the request is kept
Respond(p) ==
    /\ req[p].pc = "done"
    /\ req' = [req EXCEPT ![p] = IdleReq]
    /\ prev' = [prev EXCEPT ![p] = NoPrev]
    /\ UNCHANGED <<pandas3, db, stmts>>

Init ==
    /\ pandas3 \in BOOLEAN
    /\ db = <<>>
    /\ stmts = {}
    /\ req = [p \in Procs |-> IdleReq]
    /\ prev = [p \in Procs |-> NoPrev]

(***************************************************************************)
(* Requests the model sends                                                *)
(***************************************************************************)
MaxRows == 2
MaxMapLen == 2
MaxBatch == 1
MaxNameLen == 2

SeqsUpTo(S, n) == UNION {[1..m -> S] : m \in 0..n}

\* Headers as the file spells them
H_LOANER == <<"L","o","a","n","e","r","_","I","D">>
H_NAME   == <<" ","N","a","m","e"," ">>
H_CLIENT == <<"c","l","i","e","n","t","_","i","d">>
H_X      == <<"X">>

\* Cells
A  == <<"A">>
A_ == <<"A"," ">>
B  == <<"B">>
BLANK == <<" ">>
EMPTY == <<>>
PX == <<"x">>
PY == <<"y">>

T == <<"t">>

\* Classifier answers
BOGUS == <<"b","o","g","u","s">>
K_NAME == <<" ","N","A","M","E">>
K_X == <<"x"," ">>

Answer(result) ==
    [status_code |-> 200, status |-> "completed", error |-> FALSE, result |-> result]

OkResp == Answer(<< <<K_X, YEAR>> >>)

FailedResps ==
    { [status_code |-> 403, status |-> "", error |-> FALSE, result |-> <<>>],
      [status_code |-> 502, status |-> "", error |-> FALSE, result |-> <<>>],
      [status_code |-> 200, status |-> "failed", error |-> TRUE, result |-> <<>>],
      [status_code |-> 200, status |-> "completed", error |-> TRUE,
       result |-> << <<K_X, YEAR>> >>],
      Answer(<<>>),
      Answer(<< <<IS_VALID, <<"True">> >> >>) }

\* Serial uploads of a two-column file whose headers the fixed mapping knows
RowValues == { <<A, PX>>, <<A_, PY>>, <<B, PX>>, <<BLANK, PX>>, <<EMPTY, PY>>, <<NaN, PX>> }

RowFiles ==
    {[columns |-> <<H_LOANER, H_NAME>>, rows |-> rows] : rows \in SeqsUpTo(RowValues, MaxRows)}

RowResps == {OkResp, [status_code |-> 403, status |-> "", error |-> FALSE, result |-> <<>>]}

Next ==
    \E p \in {1} :
        \/ Begin(p, {T}, RowFiles, BOOLEAN, RowResps, {"none", "select"})
        \/ Reupload(p, RowResps, {"none", "select"})
        \/ AppendRows(p)
        \/ Respond(p)

Spec == Init /\ [][Next]_vars

\* Uploads whose headers and classifier answers vary
MapColumns ==
    { <<H_NAME>>, <<H_X>>, <<H_CLIENT>>, <<H_NAME, H_X>>, <<H_CLIENT, H_X>>,
      <<H_LOANER, H_NAME>>, <<H_LOANER, H_CLIENT>> }

MapFiles ==
    {[columns |-> cols, rows |-> << [i \in 1..Len(cols) |-> A] >>] : cols \in MapColumns}

MapItems == {K_NAME, K_X, IS_VALID} \X {CLIENT_ID, BOGUS}

MapResps ==
    FailedResps \cup
    {Answer(result) : result \in {m \in SeqsUpTo(MapItems, MaxMapLen) : m # <<>>}}

NextMap ==
    \E p \in {1} :
        \/ Begin(p, {T}, MapFiles, BOOLEAN, MapResps, {"none"})
        \/ AppendRows(p)
        \/ Respond(p)

SpecMap == Init /\ [][NextMap]_vars

\* Two uploads at a time
BatchFiles ==
    {[columns |-> <<H_LOANER, H_NAME>>, rows |-> rows] :
        rows \in {m \in SeqsUpTo({<<A, PX>>, <<B, PY>>}, MaxBatch) : m # <<>>}}

NextConc ==
    \E p \in Procs :
        \/ Begin(p, {T}, BatchFiles, {TRUE}, {OkResp}, {"none", "append"})
        \/ AppendRows(p)
        \/ Respond(p)

SpecConc == Init /\ [][NextConc]_vars

\* Uploads whose table_name varies
NameChars == {"a", "1", "\n", ";"}

Names == SeqsUpTo(NameChars, MaxNameLen)

NameFiles ==
    {[columns |-> <<H_LOANER>>, rows |-> rows] : rows \in {<<>>, << <<A>> >>}}

NextName ==
    \E p \in {1} :
        \/ Begin(p, Names, NameFiles, BOOLEAN, {OkResp}, {"none", "schema"})
        \/ AppendRows(p)
        \/ Respond(p)

SpecName == Init /\ [][NextName]_vars

(***************************************************************************)
(* Properties                                                              *)
(***************************************************************************)
Idx(rows) == {rows[i].idx : i \in 1..Len(rows)}

ClientIdPos(r) == Positions(r.columns, CLIENT_ID)[1]

\* The client_id cell of input row i as parsed, before line 203
RawId(r, i) == r.projected[i].cells[ClientIdPos(r)]

IsBlankCell(c) == c # NaN /\ \A i \in 1..Len(c) : IsSpace(c[i])

LlmLowerOf(r) == llm_mapping_lower(call_llm(r.resp).mapping)

\* C1: every source column whose normalized name is a key of both
\* FIXED_COLUMN_MAPPING and the normalized classifier mapping is assigned the
\* fixed mapping's field in final_mapping, whatever the classifier claimed.
C1_StaticOverridesClassifier ==
    \A p \in Procs :
        req[p].resolved =>
            \A c \in Range(req[p].excel_columns) :
                (c \in DOMAIN FIXED_COLUMN_MAPPING /\ c \in DOMAIN LlmLowerOf(req[p]))
                => /\ c \in DOMAIN req[p].final_mapping
                   /\ req[p].final_mapping[c] = FIXED_COLUMN_MAPPING[c]

\* A finished upload where the classifier claimed another field for a column
\* of the fixed mapping
C1_Witness ==
    \E p \in Procs :
        /\ req[p].pc = "done"
        /\ req[p].resolved
        /\ \E c \in Range(req[p].excel_columns) :
              /\ c \in DOMAIN FIXED_COLUMN_MAPPING
              /\ c \in DOMAIN LlmLowerOf(req[p])
              /\ LlmLowerOf(req[p])[c] # FIXED_COLUMN_MAPPING[c]

\* C2: every value of final_mapping is one of the six destination fields; a
\* field the classifier claims outside that set is never assigned.
C2_OnlyDestinationFields ==
    \A p \in Procs :
        req[p].resolved =>
            \A c \in DOMAIN req[p].final_mapping :
                req[p].final_mapping[c] \in allowed_columns

\* The second of two identical committed uploads, both having resolved the
\* same mapping and the second not failing in storage
IsReupload(p) ==
    /\ req[p].pc = "done"
    /\ req[p].reupload
    /\ req[p].insert_to_db
    /\ prev[p].valid
    /\ prev[p].status = 200
    /\ req[p].resolved
    /\ req[p].final_mapping = prev[p].final_mapping
    /\ req[p].exc # "SQLAlchemyError"

\* C3 as stated: the second upload succeeds with rows_inserted = 0 and
\* rows_skipped_existing = N, the first upload's rows_inserted.
C3_ReuploadSkipsInserted ==
    \A p \in Procs :
        IsReupload(p) =>
            /\ req[p].status = 200
            /\ req[p].rows_inserted = 0
            /\ req[p].rows_skipped_existing = prev[p].rows_inserted

\* C3 amended: the second upload succeeds with rows_inserted = 0 and
\* rows_skipped_existing = N + K, the first upload's rows_inserted plus its
\* rows_skipped_existing.
C3_ReuploadSkipsAllValid ==
    \A p \in Procs :
        IsReupload(p) =>
            /\ req[p].status = 200
            /\ req[p].rows_inserted = 0
            /\ req[p].rows_skipped_existing =
                  prev[p].rows_inserted + prev[p].rows_skipped_existing

\* A second upload after a first that inserted some rows and skipped others
C3_Witness ==
    \E p \in Procs :
        /\ IsReupload(p)
        /\ prev[p].rows_inserted > 0
        /\ prev[p].rows_skipped_existing > 0
        /\ req[p].rows_skipped_existing > 0

\* C4: in a committed upload, of the rows sharing one valid cleaned client_id
\* only the last in input order is retained for the existing-id lookup and
\* the insert; every earlier one is counted in rows_dropped_invalid.
C4_LastDuplicateKept ==
    \A p \in Procs :
        req[p].reconciled =>
            LET r == req[p]
                n == Len(r.projected)
                cid(i) == CleanId(RawId(r, i), pandas3)
            IN  /\ \A i \in 1..n :
                      IsValidId(cid(i)) =>
                          (i \in Idx(r.cleaned) <=> \A j \in (i + 1)..n : cid(j) # cid(i))
                /\ r.rows_dropped_invalid =
                      Cardinality({i \in 1..n : i \notin Idx(r.cleaned)})
                /\ r.incoming_ids # <<>> =>
                      r.incoming_ids = IdList(r.cleaned, ClientIdPos(r))
                /\ Idx(r.df) \subseteq Idx(r.cleaned)

\* A successful upload of two rows with the same cleaned client_id, spelled
\* differently, of which one was inserted
C4_Witness ==
    \E p \in Procs :
        /\ req[p].pc = "done"
        /\ req[p].status = 200
        /\ req[p].reconciled
        /\ req[p].rows_inserted = 1
        /\ req[p].rows_dropped_invalid = 1
        /\ Len(req[p].projected) = 2
        /\ RawId(req[p], 1) # RawId(req[p], 2)
        /\ CleanId(RawId(req[p], 1), pandas3) = CleanId(RawId(req[p], 2), pandas3)

\* C5: in a committed upload, a row whose client_id cell is the empty string
\* or only white space is counted in rows_dropped_invalid and is neither
\* looked up, inserted nor counted as skipped; no stored row has such an id.
C5_BlankIdDropped ==
    /\ \A p \in Procs :
          req[p].reconciled =>
              LET r == req[p]
                  blank == {i \in 1..Len(r.projected) : IsBlankCell(RawId(r, i))}
              IN  /\ blank \cap Idx(r.cleaned) = {}
                  /\ blank \cap Idx(r.df) = {}
                  /\ r.rows_dropped_invalid >= Cardinality(blank)
    /\ \A t \in DOMAIN db : \A id \in TableIds(db[t]) : ~IsBlankCell(id)

\* A successful upload that inserted a row and held a white-space-only id
C5_Witness ==
    \E p \in Procs :
        /\ req[p].pc = "done"
        /\ req[p].status = 200
        /\ req[p].reconciled
        /\ req[p].rows_inserted >= 1
        /\ \E i \in 1..Len(req[p].projected) : RawId(req[p], i) = BLANK

\* C6: in a committed upload, a row whose client_id cell is missing is dropped
\* as invalid: its id is not passed to the existing-id query and the row is
\* not appended.
C6_MissingIdDropped ==
    \A p \in Procs :
        req[p].reconciled =>
            \A i \in 1..Len(req[p].projected) :
                RawId(req[p], i) = NaN => i \notin Idx(req[p].cleaned)

\* C7: the table never holds two rows with one client_id, and a request
\* whose append hit the primary key ends with 409.
C7_ConflictIs409 ==
    /\ \A t \in DOMAIN db :
          \A i, j \in 1..Len(db[t]) :
              db[t][i][CLIENT_ID] = db[t][j][CLIENT_ID] => i = j
    /\ \A p \in Procs :
          req[p].exc = "IntegrityError" => req[p].status = 409

\* Two uploads of the same client_id that both passed the existing-id check:
\* one appended, the other ended with 409
C7_Witness ==
    \E p, q \in Procs :
        /\ p # q
        /\ req[p].pc = "done" /\ req[q].pc = "done"
        /\ req[p].status = 409
        /\ req[p].rows_skipped_existing = 0
        /\ req[q].status = 200
        /\ req[q].rows_inserted > 0
        /\ Range(req[p].incoming_ids) \cap Range(req[q].incoming_ids) # {}

\* C8: an upload whose final_mapping is empty never returns success.
C8_EmptyMappingFails ==
    \A p \in Procs :
        (req[p].pc = "done" /\ req[p].resolved /\ DOMAIN req[p].final_mapping = {})
        => req[p].status # 200

\* C9: a table name that is not letters, digits and underscores only, or that
\* starts with a digit, ends the request with 400 and appears in no statement.
C9_OnlySafeNamesInStatements ==
    /\ \A n \in stmts : FullIdent(n)
    /\ \A p \in Procs :
          (req[p].pc = "done" /\ ~FullIdent(req[p].table_name)) => req[p].status = 400

====
